---- MODULE Spec2Model ----
(***************************************************************************)
(* Model of src/index.js: the brute-force search for one missing word of   *)
(* a BIP-39 phrase.  The script's in-source configuration (the phrase      *)
(* template mnemonicWords and the addressTypes table) and its environment  *)
(* (the checksum validator, the key derivation library and the balance     *)
(* service) are the inputs of the model.                                   *)
(***************************************************************************)
EXTENDS Integers, Sequences, FiniteSets, TLC

(* ---------------- bounds ---------------- *)
\* number of wordlist entries in the model (bip39.wordlists.english has 2048)
NWords == 3
\* number of word slots of the phrase template (the script's template has 12)
PhraseLen == 2
\* number of times the key derivation library fails in one run
MaxFaults == 1

(* ---------------- JavaScript values ---------------- *)
\* A JS value is a record [t, n, half]: t is the typeof-like tag, n the
\* integer part of a number and half tells that the number is n + 0.5.
JSVal(t, n, half) == [t |-> t, n |-> n, half |-> half]
Num(n) == JSVal("number", n, FALSE)
HalfSat == JSVal("number", 0, TRUE)
Undefined == JSVal("undefined", 0, FALSE)
JSNull == JSVal("null", 0, FALSE)
JSString == JSVal("string", 0, FALSE)
TypeOf(v) == v.t
\* the number v is strictly positive
PositiveBalance(v) == v.t = "number" /\ (v.n > 0 \/ (v.n = 0 /\ v.half))
\* faulty variants of GreaterThanZero: `>= 1` and `>= 0`
AtLeastOne(v) == v.t = "number" /\ v.n >= 1
GreaterOrEqualZero(v) == v.t = "number" /\ v.n >= 0
\* line 181: balanceSat > 0, for a number operand (null is handled before)
GreaterThanZero(v) == v.t = "number" /\ (v.n > 0 \/ (v.n = 0 /\ v.half))
\* a non-negative integer number of satoshis
IsSatoshiAmount(v) == v.t = "number" /\ ~v.half /\ v.n >= 0

(* ---------------- configuration ---------------- *)
\* null placeholder of the template; words are 1..NWords
null == 0
wordlist == [k \in 1..NWords |-> k]
\* a known word the user typed into the template
KnownWords == {1}
Templates == [1..PhraseLen -> KnownWords \cup {null}]

SupportedTypes == {"P2PKH", "P2SH-P2WPKH", "P2WPKH"}
SourceAddressTypes ==
  << [code |-> "P2PKH", prefix |-> "m/44'/0'/0'/0/"],
     [code |-> "P2SH-P2WPKH", prefix |-> "m/49'/0'/0'/0/"],
     [code |-> "P2WPKH", prefix |-> "m/84'/0'/0'/0/"] >>
\* the table as written, and the table with its second entry edited to a type
\* that derivePubkeyAndAddress does not know
AddressTypeTables ==
  { SourceAddressTypes,
    [SourceAddressTypes EXCEPT ![2] = [code |-> "P2TR", prefix |-> "m/86'/0'/0'/0/"]] }
indicesToCheck == <<0>>

(* ---------------- key derivation and address encoding ---------------- *)
\* bip39.mnemonicToSeedSync + bip32.fromSeed: the root is a function of the
\* mnemonic alone; seedThrows is the library's failure
NoRoot == [thrown |-> FALSE, mnemonic |-> << >>]
getRootFromMnemonic(mnemonic, seedThrows) ==
  IF seedThrows THEN [thrown |-> TRUE, mnemonic |-> << >>]
  ELSE [thrown |-> FALSE, mnemonic |-> mnemonic]

NoPath == [prefix |-> "", idx |-> 0]
NoAddress == [mnemonic |-> << >>, path |-> NoPath, type |-> ""]
NoAddrData == [thrown |-> "none", pubkey |-> [mnemonic |-> << >>, path |-> NoPath],
               address |-> NoAddress]
derivePubkeyAndAddress(root, path, addressType, derivePathThrows) ==
  IF derivePathThrows
    THEN [NoAddrData EXCEPT !.thrown = "DerivationError"]
  ELSE IF addressType \notin SupportedTypes
    THEN [NoAddrData EXCEPT !.thrown = "Unsupported addressType"]
  ELSE [thrown |-> "none",
        pubkey |-> [mnemonic |-> root.mnemonic, path |-> path],
        address |-> [mnemonic |-> root.mnemonic, path |-> path, type |-> addressType]]

(* ---------------- the balance service ---------------- *)
\* an address the search never derives
OtherAddress == [mnemonic |-> << >>, path |-> NoPath, type |-> "P2PKH"]
\* values the final_balance field of an entry can hold
FinalBalances == {Undefined, JSString, Num(0 - 1), Num(0), HalfSat, Num(5000)}
Entry(t, fb) == [t |-> t, final_balance |-> fb]
NoEntry == Entry("undefined", Undefined)
\* what data[address] can be: an object with a final_balance, null, a number
Entries == {Entry("object", fb) : fb \in FinalBalances}
             \cup {Entry("null", Undefined), Entry("number", Undefined)}
Body(t, key, e) == [t |-> t, key |-> key, entry |-> e]
\* outcome of axios.get: status is "ok" or the reason the promise rejected
\* (the 10 s timeout, a network or HTTP error); data is the parsed body: an
\* object with one key, null, or a string (empty or non-JSON body)
Responses(address) ==
  { [status |-> st, data |-> Body("null", OtherAddress, NoEntry)] : st \in {"timeout", "network"} }
  \cup { [status |-> "ok", data |-> Body(t, OtherAddress, NoEntry)] : t \in {"null", "string"} }
  \cup { [status |-> "ok", data |-> Body("object", OtherAddress, Entry("object", Num(5000)))] }
  \cup { [status |-> "ok", data |-> Body("object", address, e)] : e \in Entries }
NoResponse == [status |-> "none", data |-> Body("null", OtherAddress, NoEntry)]

\* data[address] for a non-null data
Lookup(data, address) ==
  IF data.t = "object" /\ data.key = address THEN data.entry ELSE NoEntry
Truthy(e) == e.t \in {"object", "number"}
\* faulty variant of getBalanceSatoshis: a failed request counts as a zero balance
getBalanceSatoshisZeroOnError(address, resp) ==
  IF resp.status # "ok" THEN Num(0)
  ELSE IF resp.data.t = "null" THEN Num(0)
  ELSE LET e == Lookup(resp.data, address) IN
    IF Truthy(e) /\ TypeOf(e.final_balance) = "number"
      THEN e.final_balance
      ELSE JSNull
getBalanceSatoshis(address, resp) ==
  IF resp.status # "ok" THEN JSNull              \* axios.get rejected: catch
  ELSE IF resp.data.t = "null" THEN JSNull       \* data[address] throws: catch
  ELSE LET e == Lookup(resp.data, address) IN
    IF Truthy(e) /\ TypeOf(e.final_balance) = "number"
      THEN e.final_balance
      ELSE JSNull

(* ---------------- state ---------------- *)
VARIABLES
  pc,              \* position of the async main function
  mnemonicWords,   \* the phrase array, overwritten in place
  missingIndex,    \* 0-based position of the hole
  i,               \* 0-based wordlist index of the main loop
  idxPos,          \* position in indicesToCheck
  typePos,         \* position in addressTypes
  candidatePhrase, \* mnemonicWords.join(' ')
  root,            \* HD root of the current candidate
  addrData,        \* result of derivePubkeyAndAddress
  balanceSat,      \* result of the last getBalanceSatoshis
  exitCode,        \* argument of process.exit, -1 while running
  report,          \* what the final console output says
  \* configuration and environment, fixed for a run
  template,        \* mnemonicWords as written in the script
  addressTypes,    \* the addressTypes table
  checksumOK,      \* wordlist indices whose candidate passes the checksum
  funded,          \* funded[w]: position in addressTypes of the first address of
                   \* candidate w the service reports a positive balance for
                   \* (candidate valid, derivations succeeding); 0 if none
  \* history
  substituted,     \* wordlist indices written into the hole
  validateCalls,   \* wordlist indices validateMnemonic was called for
  validatedOK,     \* ... and returned true for
  rootCalls,       \* wordlist indices getRootFromMnemonic was called for
  rootFailed,      \* ... and threw for
  deriveCalls,     \* <<w, idxPos, typePos>> derivePubkeyAndAddress was called for
  deriveFailed,    \* ... and threw for
  queries,         \* sequence of balance requests sent, [w, ip, tp, address]
  lastResponse,    \* resp of the getBalanceSatoshis call that just returned;
                   \* NoResponse once the loop has moved on
  onlyErrors,      \* every request so far timed out or failed
  positives,       \* number of responses so far that carried a positive balance
  faults           \* number of failures of the key derivation library so far

progVars == <<pc, mnemonicWords, missingIndex, i, idxPos, typePos, candidatePhrase,
              root, addrData, balanceSat, exitCode, report>>
envVars == <<template, addressTypes, checksumOK, funded>>
histVars == <<substituted, validateCalls, validatedOK, positives, rootCalls, rootFailed, deriveCalls, deriveFailed, queries,
              lastResponse, onlyErrors, faults>>
vars == <<progVars, envVars, histVars>>

WordIdx == 0..(NWords - 1)

\* mnemonicWords.filter((x) => x === null).length
nullCount(words) == Cardinality({k \in 1..Len(words) : words[k] = null})
\* faulty variant of indexOf: the 1-based position
indexOfOneBased(words, x) ==
  IF \E k \in 1..Len(words) : words[k] = x
    THEN CHOOSE k \in 1..Len(words) :
           words[k] = x /\ \A m \in 1..(k - 1) : words[m] # x
    ELSE 0 - 1
\* Array.prototype.indexOf: 0-based index of the first match, -1 if none
indexOf(words, x) ==
  IF \E k \in 1..Len(words) : words[k] = x
    THEN (CHOOSE k \in 1..Len(words) :
            words[k] = x /\ \A m \in 1..(k - 1) : words[m] # x) - 1
    ELSE 0 - 1

\* bip39.validateMnemonic: every slot holds a word and the checksum bits match;
\* the checksum is a function of the phrase, fixed by checksumOK for the
\* phrases that differ from the template in the hole only
\* faulty variant of validateMnemonic: the words are checked, the checksum is not
validateMnemonicWordsOnly(phrase) ==
  \A k \in 1..Len(phrase) : phrase[k] # null
validateMnemonic(phrase) ==
  /\ \A k \in 1..Len(phrase) : phrase[k] # null
  /\ \E w \in checksumOK : \E k \in 1..Len(template) :
       template[k] = null /\ phrase = [template EXCEPT ![k] = wordlist[w + 1]]

\* faulty variant of TemplateRejected: only a template without a hole is rejected
TemplateRejectedNoHole(words) == nullCount(words) < 1
\* line 46: nullCount !== 1
TemplateRejected(words) == nullCount(words) # 1

NoReport == [kind |-> "none", missingIndex |-> 0 - 1, word |-> null, phrase |-> << >>,
             code |-> "", path |-> NoPath, address |-> NoAddress, balance |-> JSNull]

Init ==
  /\ template \in Templates
  /\ addressTypes \in AddressTypeTables
  /\ IF nullCount(template) = 1
       THEN /\ checksumOK \in SUBSET WordIdx
            /\ funded \in [WordIdx -> 0..Len(addressTypes)]
            /\ \A w \in WordIdx : funded[w] # 0 =>
                 /\ w \in checksumOK
                 /\ addressTypes[funded[w]].code \in SupportedTypes
       ELSE /\ checksumOK = {}
            /\ funded = [w \in WordIdx |-> 0]
  /\ mnemonicWords = template
  /\ pc = "start"
  /\ missingIndex = 0 - 1
  /\ i = 0
  /\ idxPos = 1
  /\ typePos = 1
  /\ candidatePhrase = << >>
  /\ root = NoRoot
  /\ addrData = NoAddrData
  /\ balanceSat = JSNull
  /\ exitCode = 0 - 1
  /\ report = NoReport
  /\ substituted = {}
  /\ validateCalls = {}
  /\ validatedOK = {}
  /\ positives = 0
  /\ rootCalls = {}
  /\ rootFailed = {}
  /\ deriveCalls = {}
  /\ deriveFailed = {}
  /\ queries = << >>
  /\ lastResponse = NoResponse
  /\ onlyErrors = TRUE
  /\ faults = 0

(* ---------------- actions ---------------- *)
\* lines 44-52: the nullCount check and missingIndex
CheckTemplate ==
  /\ pc = "start"
  /\ IF TemplateRejected(mnemonicWords)
       THEN /\ pc' = "exit"
            /\ exitCode' = 1
            /\ report' = [NoReport EXCEPT !.kind = "ConfigError"]
            /\ UNCHANGED missingIndex
       ELSE /\ pc' = "loop"
            /\ missingIndex' = indexOf(mnemonicWords, null)
            /\ UNCHANGED <<exitCode, report>>
  /\ UNCHANGED <<mnemonicWords, i, idxPos, typePos, candidatePhrase, root, addrData,
                 balanceSat>>
  /\ UNCHANGED <<envVars, histVars>>

\* faulty variant of InLoop: the last word is left out
InLoopOffByOne == i < Len(wordlist) - 1
\* line 131: the loop test i < wordlist.length
InLoop == i < Len(wordlist)
\* faulty variants of NextIndex: a word is skipped; the index is not advanced
NextIndexSkip == i + 2
NextIndexStuck == i
\* line 131: i++
NextIndex == i + 1

\* lines 131-140: loop test true, substitution, join, checksum validation
NextWord ==
  /\ pc = "loop"
  /\ InLoop
  /\ mnemonicWords' = [mnemonicWords EXCEPT ![missingIndex + 1] = wordlist[i + 1]]
  /\ candidatePhrase' = mnemonicWords'
  /\ substituted' = substituted \cup {i}
  /\ validateCalls' = validateCalls \cup {i}
  /\ IF ~validateMnemonic(candidatePhrase')
       THEN /\ i' = NextIndex
            /\ pc' = "loop"
            /\ UNCHANGED validatedOK
       ELSE /\ i' = i
            /\ pc' = "root"
            /\ validatedOK' = validatedOK \cup {i}
  /\ UNCHANGED <<missingIndex, idxPos, typePos, root, addrData, balanceSat, exitCode,
                 report>>
  /\ lastResponse' = NoResponse
  /\ UNCHANGED <<envVars, positives, rootCalls, rootFailed, deriveCalls, deriveFailed,
                 queries, onlyErrors, faults>>

\* lines 131, 197-200: loop test false, the "no mnemonic found" exit
Exhausted ==
  /\ pc = "loop"
  /\ ~InLoop
  /\ pc' = "exit"
  /\ exitCode' = 0
  /\ report' = [NoReport EXCEPT !.kind = "Exhausted"]
  /\ lastResponse' = NoResponse
  /\ UNCHANGED <<mnemonicWords, missingIndex, i, idxPos, typePos, candidatePhrase, root,
                 addrData, balanceSat>>
  /\ UNCHANGED <<envVars, substituted, validateCalls, validatedOK, positives, rootCalls,
                 rootFailed, deriveCalls, deriveFailed, queries, onlyErrors, faults>>

\* faulty variant of ContinueAfterRootError: the error ends the run
AbortAfterRootError ==
  /\ pc' = "exit"
  /\ UNCHANGED <<i, root, idxPos, typePos>>
\* lines 148-151: continue of the main loop after getRootFromMnemonic threw
ContinueAfterRootError ==
  /\ i' = NextIndex
  /\ pc' = "loop"
  /\ UNCHANGED <<root, idxPos, typePos>>

\* lines 145-162: the root of the candidate; on a throw, continue with i + 1
DeriveRoot ==
  /\ pc = "root"
  /\ \E seedThrows \in (IF funded[i] # 0 \/ faults >= MaxFaults THEN {FALSE} ELSE BOOLEAN) :
       LET r == getRootFromMnemonic(candidatePhrase, seedThrows) IN
       /\ faults' = IF seedThrows THEN faults + 1 ELSE faults
       /\ rootCalls' = rootCalls \cup {i}
       /\ IF r.thrown
            THEN /\ rootFailed' = rootFailed \cup {i}
                 /\ ContinueAfterRootError
            ELSE /\ root' = r
                 /\ idxPos' = 1
                 /\ typePos' = 1
                 /\ pc' = "derive"
                 /\ UNCHANGED <<rootFailed, i>>
  /\ UNCHANGED <<mnemonicWords, missingIndex, candidatePhrase, addrData, balanceSat,
                 exitCode, report>>
  /\ UNCHANGED <<envVars, substituted, validateCalls, validatedOK, positives, deriveCalls,
                 deriveFailed, queries, lastResponse, onlyErrors>>

\* `continue` of the inner loop (and fall-through at the end of its body): the
\* next address type, else the next index of indicesToCheck, else i++
Continue ==
  IF typePos < Len(addressTypes)
    THEN /\ typePos' = typePos + 1
         /\ pc' = "derive"
         /\ UNCHANGED <<idxPos, i>>
  ELSE IF idxPos < Len(indicesToCheck)
    THEN /\ idxPos' = idxPos + 1
         /\ typePos' = 1
         /\ pc' = "derive"
         /\ UNCHANGED i
  ELSE /\ i' = NextIndex
       /\ pc' = "loop"
       /\ UNCHANGED <<idxPos, typePos>>

\* faulty variant of the continue statements: leave the inner loops, next word
NextCandidate ==
  /\ i' = NextIndex
  /\ pc' = "loop"
  /\ UNCHANGED <<idxPos, typePos>>
\* faulty variant of ContinueAfterUnknown: the same address is tried again
RetryAfterUnknown ==
  /\ pc' = "derive"
  /\ UNCHANGED <<i, idxPos, typePos>>
\* line 170: continue after derivePubkeyAndAddress threw
ContinueAfterDeriveError == Continue
\* line 179: continue after getBalanceSatoshis returned null
ContinueAfterUnknown == Continue
\* lines 190-193: the zero-balance branch falls through to the next iteration
ContinueAfterZero == Continue

CurrentPath == [prefix |-> addressTypes[typePos].prefix, idx |-> indicesToCheck[idxPos]]

\* lines 163-176 and 109-115: derive the address of the current type; on a
\* throw, continue; else call getBalanceSatoshis, which sends the request
DeriveAddress ==
  /\ pc = "derive"
  /\ \E derivePathThrows \in (IF (funded[i] = typePos /\ idxPos = 1) \/ faults >= MaxFaults
                                 THEN {FALSE} ELSE BOOLEAN) :
       LET d == derivePubkeyAndAddress(root, CurrentPath, addressTypes[typePos].code,
                                       derivePathThrows) IN
       /\ faults' = IF derivePathThrows THEN faults + 1 ELSE faults
       /\ deriveCalls' = deriveCalls \cup {<<i, idxPos, typePos>>}
       /\ IF d.thrown # "none"
            THEN /\ deriveFailed' = deriveFailed \cup {<<i, idxPos, typePos>>}
                 /\ ContinueAfterDeriveError
                 /\ UNCHANGED <<addrData, queries>>
            ELSE /\ addrData' = d
                 /\ queries' = Append(queries, [w |-> i, ip |-> idxPos, tp |-> typePos,
                                                address |-> d.address])
                 /\ pc' = "await"
                 /\ UNCHANGED <<deriveFailed, i, idxPos, typePos>>
  /\ UNCHANGED <<mnemonicWords, missingIndex, candidatePhrase, root, balanceSat, exitCode,
                 report>>
  /\ lastResponse' = NoResponse
  /\ UNCHANGED <<envVars, substituted, validateCalls, validatedOK, positives, rootCalls,
                 rootFailed, onlyErrors>>

\* faulty variant of FoundReport: the first address type is cited
FoundReportFirstType(b) ==
  [kind |-> "Found", missingIndex |-> missingIndex, word |-> wordlist[i + 1],
   phrase |-> candidatePhrase, code |-> addressTypes[1].code, path |-> CurrentPath,
   address |-> addrData.address, balance |-> b]
\* lines 182-188: the FOUND report
FoundReport(b) ==
  [kind |-> "Found", missingIndex |-> missingIndex, word |-> wordlist[i + 1],
   phrase |-> candidatePhrase, code |-> addressTypes[typePos].code, path |-> CurrentPath,
   address |-> addrData.address, balance |-> b]
\* lines 181-189: the balanceSat > 0 branch, report and process.exit(0)
\* faulty variant of ReportFound: the report is printed and the loop goes on
ReportFoundAndContinue(b) ==
  /\ report' = FoundReport(b)
  /\ UNCHANGED exitCode
  /\ Continue
ReportFound(b) ==
  /\ pc' = "exit"
  /\ exitCode' = 0
  /\ report' = FoundReport(b)
  /\ UNCHANGED <<i, idxPos, typePos>>

\* lines 116-128 and 176-193: the response arrives, getBalanceSatoshis returns,
\* the loop body decides
ReceiveBalance ==
  /\ pc = "await"
  /\ \E resp \in Responses(addrData.address) :
       LET b == getBalanceSatoshis(addrData.address, resp) IN
       /\ PositiveBalance(b) <=> (funded[i] = typePos /\ idxPos = 1)
       /\ lastResponse' = resp
       /\ onlyErrors' = (onlyErrors /\ resp.status # "ok")
       /\ positives' = IF PositiveBalance(b) THEN positives + 1 ELSE positives
       /\ balanceSat' = b
       /\ IF b = JSNull
            THEN /\ ContinueAfterUnknown
                 /\ UNCHANGED <<exitCode, report>>
          ELSE IF GreaterThanZero(b)
            THEN ReportFound(b)
          ELSE /\ ContinueAfterZero
               /\ UNCHANGED <<exitCode, report>>
  /\ UNCHANGED <<mnemonicWords, missingIndex, candidatePhrase, root, addrData>>
  /\ UNCHANGED <<envVars, substituted, validateCalls, validatedOK, rootCalls, rootFailed,
                 deriveCalls, deriveFailed, queries, faults>>

Next ==
  \/ CheckTemplate
  \/ NextWord
  \/ Exhausted
  \/ DeriveRoot
  \/ DeriveAddress
  \/ ReceiveBalance

Spec == Init /\ [][Next]_vars

TypeOK ==
  /\ pc \in {"start", "loop", "root", "derive", "await", "exit"}
  /\ i \in 0..NWords
  /\ exitCode \in {0 - 1, 0, 1}

(* ---------------- properties ---------------- *)
Done == pc = "exit"
OneHole == nullCount(template) = 1
\* candidate w would, on its own, end the search with a positive balance
WouldReport(w) == funded[w] # 0
\* candidate w has been touched by the search in any way
Evaluated(w) ==
  \/ w \in substituted \/ w \in validateCalls \/ w \in rootCalls
  \/ \E c \in deriveCalls : c[1] = w
  \/ \E k \in 1..Len(queries) : queries[k].w = w
QueriedAt(w, ip, tp) == \E k \in 1..Len(queries) :
  queries[k].w = w /\ queries[k].ip = ip /\ queries[k].tp = tp
LastQuery == queries[Len(queries)]
\* the template with its hole filled by wordlist entry w (0-based)
Candidate(w) ==
  [k \in 1..Len(template) |-> IF template[k] = null THEN wordlist[w + 1] ELSE template[k]]

\* C1 as stated: of any two candidates a < b that would both report a positive
\* balance, b is never evaluated and the search ends in Success reporting a.
C1_AnyPairReportsLower ==
  \A a, b \in WordIdx :
    (a < b /\ WouldReport(a) /\ WouldReport(b)) =>
      /\ ~Evaluated(b)
      /\ Done => (report.kind = "Found" /\ report.word = wordlist[a + 1])

\* C1 (amended): of any two candidates a < b that would both report a positive
\* balance, b is never evaluated, and the search ends in Success reporting the
\* lowest position that would report a positive balance, which is a when no
\* candidate before a would report one.
C1_LowestFundedWins ==
  \A a, b \in WordIdx :
    (a < b /\ WouldReport(a) /\ WouldReport(b)) =>
      /\ ~Evaluated(b)
      /\ Done =>
           /\ report.kind = "Found"
           /\ \E f \in 0..a :
                /\ WouldReport(f)
                /\ \A c \in 0..(f - 1) : ~WouldReport(c)
                /\ report.word = wordlist[f + 1]
                /\ report.phrase = Candidate(f)
           /\ (\A c \in 0..(a - 1) : ~WouldReport(c)) => report.word = wordlist[a + 1]
C1_Witness ==
  /\ Done
  /\ report.kind = "Found"
  /\ \E a, b \in WordIdx :
       /\ a < b /\ WouldReport(a) /\ WouldReport(b)
       /\ report.word = wordlist[a + 1]
       /\ a > 0 /\ (a - 1) \in validatedOK

\* position of a supported address type in the order Legacy, WrappedSegwit,
\* NativeSegwit
Rank(code) == CASE code = "P2PKH" -> 1 [] code = "P2SH-P2WPKH" -> 2
                [] code = "P2WPKH" -> 3 [] OTHER -> 0

\* C2: the addresses of a candidate are queried in the order Legacy,
\* WrappedSegwit, NativeSegwit (candidates in wordlist order); a response with
\* a balance > 0 halts the search at once in Success citing that scheme and
\* address; no query follows it, and at most one positive response is ever seen.
C2_FirstPositiveSchemeHalts ==
  /\ \A k, l \in 1..Len(queries) : k < l =>
       \/ queries[k].w < queries[l].w
       \/ /\ queries[k].w = queries[l].w
          /\ Rank(queries[k].address.type) < Rank(queries[l].address.type)
  /\ \A k \in 1..Len(queries) : Rank(queries[k].address.type) # 0
  /\ PositiveBalance(balanceSat) =>
       /\ Done /\ exitCode = 0
       /\ report.kind = "Found"
       /\ report.code = LastQuery.address.type
       /\ report.address = LastQuery.address
  /\ report.kind = "Found" =>
       /\ Done
       /\ positives = 1
       /\ report.address = LastQuery.address
       /\ report.word = wordlist[LastQuery.w + 1]
  /\ positives <= 1
C2_Witness ==
  /\ Done
  /\ report.kind = "Found"
  /\ report.code = "P2SH-P2WPKH"
  /\ Len(queries) >= 2
  /\ queries[Len(queries) - 1].w = LastQuery.w
  /\ queries[Len(queries) - 1].address.type = "P2PKH"
  /\ \E w \in checksumOK : w > LastQuery.w

\* C3: a template whose number of holes is not one is rejected with exit
\* code 1 before the loop: nothing is substituted, validated, derived or
\* queried, and neither Success nor Exhausted is reported.
C3_BadTemplateRejected ==
  ~OneHole =>
    /\ pc \in {"start", "exit"}
    /\ \A w \in WordIdx : ~Evaluated(w)
    /\ queries = << >>
    /\ mnemonicWords = template
    /\ report.kind \notin {"Found", "Exhausted"}
    /\ Done => (exitCode = 1 /\ report.kind = "ConfigError")
C3_Witness ==
  /\ Done
  /\ nullCount(template) >= 2
  /\ exitCode = 1
  /\ report.kind = "ConfigError"

\* words of the wordlist for which some address derivation was attempted
DerivedWords == {c[1] : c \in deriveCalls}
QueriedWords == {queries[k].w : k \in 1..Len(queries)}

\* C4: a candidate that fails the checksum has no root derivation, no address
\* derivation and no balance query; these happen only for candidates whose
\* validation returned true.
C4_NoDerivationWithoutChecksum ==
  /\ validatedOK \subseteq checksumOK
  /\ \A w \in WordIdx \ checksumOK :
       w \notin rootCalls /\ w \notin DerivedWords /\ w \notin QueriedWords
  /\ rootCalls \subseteq validatedOK
  /\ DerivedWords \subseteq (rootCalls \ rootFailed)
  /\ QueriedWords \subseteq DerivedWords
C4_Witness ==
  /\ Done
  /\ \E w \in validateCalls \ checksumOK : \E v \in QueriedWords : w < v
  /\ \E w \in validateCalls \ checksumOK : \E v \in QueriedWords : v < w

\* C5: when every balance request times out or fails, the run neither crashes
\* nor stops early: it ends in Exhausted with exit code 0, after every
\* checksum-valid candidate had its root derived and every address whose
\* derivation succeeded queried (all three when no derivation threw).
C5_OracleDownExhausts ==
  (onlyErrors /\ OneHole) =>
    /\ report.kind \notin {"Found", "ConfigError"}
    /\ exitCode # 1
    /\ Done =>
         /\ exitCode = 0
         /\ report.kind = "Exhausted"
         /\ i = Len(wordlist)
         /\ \A w \in checksumOK :
              /\ w \in rootCalls
              /\ w \notin rootFailed =>
                   \A ip \in 1..Len(indicesToCheck) : \A tp \in 1..Len(addressTypes) :
                     /\ <<w, ip, tp>> \in deriveCalls
                     /\ <<w, ip, tp>> \notin deriveFailed => QueriedAt(w, ip, tp)
C5_Witness ==
  /\ Done
  /\ onlyErrors
  /\ report.kind = "Exhausted"
  /\ Cardinality(checksumOK) >= 2
  /\ Len(queries) >= 6
  /\ \A w \in checksumOK : \A tp \in 1..Len(addressTypes) : QueriedAt(w, 1, tp)

\* C6: Success is reported only when the most recent response carried a
\* balance > 0, and the report names exactly the candidate (the template with
\* the hole filled by wordlist[i]), word, scheme, path, address and balance of
\* that query; a zero balance or Unknown never gives Success.
C6_SuccessOnlyOnPositive ==
  report.kind = "Found" =>
    /\ Len(queries) > 0
    /\ balanceSat # JSNull /\ balanceSat # Num(0)
    /\ PositiveBalance(balanceSat)
    /\ balanceSat = lastResponse.data.entry.final_balance
    /\ lastResponse.status = "ok" /\ lastResponse.data.key = LastQuery.address
    /\ report.balance = balanceSat
    /\ report.word = wordlist[LastQuery.w + 1]
    /\ report.phrase = Candidate(LastQuery.w)
    /\ report.missingIndex + 1 \in 1..Len(template)
    /\ template[report.missingIndex + 1] = null
    /\ report.code = addressTypes[LastQuery.tp].code
    /\ report.path = [prefix |-> addressTypes[LastQuery.tp].prefix,
                      idx |-> indicesToCheck[LastQuery.ip]]
    /\ report.address = LastQuery.address
    /\ report.address = [mnemonic |-> report.phrase, path |-> report.path,
                         type |-> report.code]
C6_Witness ==
  /\ Done
  /\ report.kind = "Found"
  /\ report.balance = Num(5000)
  /\ report.code = "P2WPKH"
  /\ report.missingIndex = 1
  /\ report.word = wordlist[2]

\* the type at table position tp is one derivePubkeyAndAddress knows, so a
\* throw there is a DerivationError of derivePath
Supported(tp) == addressTypes[tp].code \in SupportedTypes

\* C7 as stated: when the derivation of a scheme's address throws a
\* DerivationError the run goes on with the next candidate: no later scheme of
\* the failing candidate is derived or queried.
C7_DerivationErrorSkipsCandidate ==
  \A c \in deriveFailed : Supported(c[3]) =>
    /\ \A d \in deriveCalls : d[1] = c[1] => d[3] <= c[3]
    /\ \A k \in 1..Len(queries) : queries[k].w = c[1] => queries[k].tp < c[3]

\* C7 (amended): when the derivation of a scheme's address throws a
\* DerivationError the run is not aborted and nothing is queried for that
\* scheme; the controller goes on with the next scheme of the same candidate,
\* and with the next candidate only when the failing scheme was the last.
C7_DerivationErrorSkipsScheme ==
  [][(pc = "derive" /\ deriveFailed' # deriveFailed /\ Supported(typePos)) =>
       /\ exitCode' = exitCode /\ report' = report
       /\ queries' = queries
       /\ IF typePos < Len(addressTypes)
            THEN i' = i /\ idxPos' = idxPos /\ typePos' = typePos + 1 /\ pc' = "derive"
          ELSE IF idxPos < Len(indicesToCheck)
            THEN i' = i /\ idxPos' = idxPos + 1 /\ typePos' = 1 /\ pc' = "derive"
          ELSE i' = i + 1 /\ pc' = "loop"]_vars
C7_Witness ==
  \E c \in deriveFailed :
    /\ Supported(c[3])
    /\ c[3] < Len(addressTypes)
    /\ QueriedAt(c[1], c[2], c[3] + 1)

C9_BalanceIsSatoshisOrUnknown ==
  balanceSat = JSNull \/ IsSatoshiAmount(balanceSat)

\* the failure modes of a balance request for address: rejected request
\* (timeout, network), null or non-object body, no entry for the address, entry
\* that is not an object, missing or non-number final_balance
IsFailureMode(resp, address) ==
  \/ resp.status # "ok"
  \/ resp.data.t # "object"
  \/ resp.data.key # address
  \/ resp.data.entry.t # "object"
  \/ resp.data.entry.final_balance.t # "number"

\* C10: for every failure mode of the request getBalanceSatoshis returns
\* Unknown (null) instead of throwing, and the controller goes on with the next
\* scheme or word: the run does not end there.
C10_OracleFailureIsUnknown ==
  [][(pc = "await" /\ IsFailureMode(lastResponse', addrData.address)) =>
       /\ balanceSat' = JSNull
       /\ pc' \in {"derive", "loop"}
       /\ exitCode' = exitCode /\ report' = report
       /\ IF typePos < Len(addressTypes)
            THEN i' = i /\ typePos' = typePos + 1
            ELSE i' = i + 1]_vars
C10_Witness ==
  /\ lastResponse.status = "ok"
  /\ lastResponse.data.t = "null"
  /\ balanceSat = JSNull
  /\ pc = "derive"
  /\ typePos = 2
  /\ Len(queries) = 1

(* ---------------- the run as a function of its inputs ---------------- *)
\* the lowest wordlist index that would report a positive balance, -1 if none
LowestFunded ==
  IF \E w \in WordIdx : WouldReport(w)
    THEN CHOOSE w \in WordIdx : WouldReport(w) /\ \A c \in 0..(w - 1) : ~WouldReport(c)
    ELSE 0 - 1
PathAt(ip, tp) == [prefix |-> addressTypes[tp].prefix, idx |-> indicesToCheck[ip]]
AddressAt(w, ip, tp) ==
  [mnemonic |-> Candidate(w), path |-> PathAt(ip, tp), type |-> addressTypes[tp].code]
\* every (word, index, type) in the order of the three nested loops
SlotsPerWord == Len(indicesToCheck) * Len(addressTypes)
AllSlots ==
  [k \in 1..(NWords * SlotsPerWord) |->
     [w |-> (k - 1) \div SlotsPerWord,
      ip |-> (((k - 1) % SlotsPerWord) \div Len(addressTypes)) + 1,
      tp |-> ((k - 1) % Len(addressTypes)) + 1]]
\* the requests a run must have sent when it ends, given the checksum
\* verdicts, the derivations that threw and the balances of the addresses
ExpectedQueries ==
  LET f == LowestFunded
      Sent(s) ==
        /\ s.w \in checksumOK
        /\ s.w \notin rootFailed
        /\ <<s.w, s.ip, s.tp>> \notin deriveFailed
        /\ f # 0 - 1 => (s.w < f \/ (s.w = f /\ s.ip = 1 /\ s.tp <= funded[f]))
      sel == SelectSeq(AllSlots, Sent)
  IN [k \in 1..Len(sel) |->
        [w |-> sel[k].w, ip |-> sel[k].ip, tp |-> sel[k].tp,
         address |-> AddressAt(sel[k].w, sel[k].ip, sel[k].tp)]]
\* the final report such a run must print, the balance being the one of the
\* last response
ExpectedReport ==
  LET f == LowestFunded IN
  IF f = 0 - 1 THEN [NoReport EXCEPT !.kind = "Exhausted"]
  ELSE [kind |-> "Found", missingIndex |-> indexOf(template, null),
        word |-> wordlist[f + 1], phrase |-> Candidate(f),
        code |-> addressTypes[funded[f]].code, path |-> PathAt(1, funded[f]),
        address |-> AddressAt(f, 1, funded[f]),
        balance |-> lastResponse.data.entry.final_balance]

\* C11: the terminal state and the sequence of balance requests of a run are a
\* function of its inputs (template, wordlist, checksum verdicts, derivation
\* outcomes and the balances the service answers per address), so two runs on
\* the same inputs end in the same Success (phrase, scheme, address, balance)
\* or both in Exhausted, after the same requests.
C11_OutcomeDeterminedByInputs ==
  (Done /\ OneHole) =>
    /\ report = ExpectedReport
    /\ exitCode = 0
    /\ queries = ExpectedQueries
C11_Witness ==
  /\ Done
  /\ report.kind = "Found"
  /\ LowestFunded >= 1
  /\ funded[LowestFunded] >= 2
  /\ Len(queries) >= 3
  /\ deriveFailed # {}

(* ---------------- termination ---------------- *)
\* The script is one sequential async function: it runs on until it calls
\* process.exit, and an awaited request always settles (axios timeout, line
\* 114), so a step that can be taken is eventually taken.
\* Runs of the script as shipped: the addressTypes table of lines 156-160 and
\* a template whose last slot is the one hole (line 41).
LiveInit ==
  /\ Init
  /\ nullCount(template) = 1
  /\ template[Len(template)] = null
  /\ addressTypes = SourceAddressTypes
FairSpec == LiveInit /\ [][Next]_vars /\ WF_vars(Next)

Terminal == report.kind \in {"Found", "Exhausted"}

\* C12: a run on a template with exactly one hole eventually ends in Success
\* or in Exhausted (each awaited request returning a balance or Unknown); a
\* run that has reported either has exited and takes no further step.
C12_ReachesOneTerminalState ==
  /\ OneHole => <>(Done /\ Terminal /\ exitCode = 0)
  /\ [](Terminal => Done)
  /\ [][Terminal => UNCHANGED vars]_vars
C12_Witness ==
  /\ OneHole
  /\ Done
  /\ report.kind = "Exhausted"
  /\ Len(queries) >= 3
  /\ rootFailed # {}

(* ---------------- the scan ---------------- *)
LastWord == NWords - 1

\* C13: Exhausted is reported only after every wordlist index, the last one
\* included, has been substituted and validated and no response carried a
\* positive balance; a checksum-valid candidate at the last index has had its
\* root derived and its derivable addresses queried before that.
C13_ExhaustedAfterFullScan ==
  report.kind = "Exhausted" =>
    /\ Done /\ exitCode = 0
    /\ i = Len(wordlist)
    /\ substituted = WordIdx
    /\ validateCalls = WordIdx
    /\ validatedOK = checksumOK
    /\ positives = 0
    /\ \A w \in WordIdx : ~WouldReport(w)
    /\ LastWord \in checksumOK =>
         /\ LastWord \in rootCalls
         /\ LastWord \notin rootFailed =>
              \A ip \in 1..Len(indicesToCheck) : \A tp \in 1..Len(addressTypes) :
                /\ <<LastWord, ip, tp>> \in deriveCalls
                /\ <<LastWord, ip, tp>> \notin deriveFailed => QueriedAt(LastWord, ip, tp)
C13_Witness ==
  /\ report.kind = "Exhausted"
  /\ checksumOK = {LastWord}
  /\ Len(queries) = Len(SourceAddressTypes)
  /\ LastQuery.w = LastWord

\* C14: when getRootFromMnemonic throws for a checksum-valid candidate the run
\* is not ended: no address of that candidate is derived or queried, and the
\* loop goes on with the next wordlist index.
C14_RootErrorSkipsCandidate ==
  /\ [](\A w \in rootFailed :
          /\ w \in validatedOK
          /\ w \notin DerivedWords
          /\ w \notin QueriedWords)
  /\ [][(pc = "root" /\ rootFailed' # rootFailed) =>
          /\ rootFailed' = rootFailed \cup {i}
          /\ i' = i + 1
          /\ pc' = "loop"
          /\ exitCode' = exitCode /\ report' = report
          /\ queries' = queries /\ deriveCalls' = deriveCalls]_vars
C14_Witness ==
  \E w \in rootFailed :
    /\ w + 1 \in QueriedWords
    /\ Done

\* C16: when the balance of a scheme's address comes back Unknown (null) or
\* zero, the run does not end and the remaining schemes of the candidate are not
\* skipped: the controller goes to the next scheme of the same candidate in
\* table order, and to the next word only after the last scheme.
C16_UnknownOrZeroNextScheme ==
  [][(pc = "await" /\ (balanceSat' = JSNull \/ balanceSat' = Num(0))) =>
       /\ exitCode' = exitCode /\ report' = report
       /\ mnemonicWords' = mnemonicWords /\ root' = root
       /\ IF typePos < Len(addressTypes)
            THEN i' = i /\ idxPos' = idxPos /\ typePos' = typePos + 1 /\ pc' = "derive"
          ELSE IF idxPos < Len(indicesToCheck)
            THEN i' = i /\ idxPos' = idxPos + 1 /\ typePos' = 1 /\ pc' = "derive"
          ELSE i' = i + 1 /\ pc' = "loop"]_vars
C16_Witness ==
  /\ Len(queries) = 2
  /\ queries[1].w = queries[2].w
  /\ pc = "derive"
  /\ typePos = 3
  /\ balanceSat = JSNull
  /\ lastResponse.status = "timeout"
  /\ ~onlyErrors
  /\ positives = 0

\* C17: the scan index starts at 0 and each step leaves it or adds exactly one
\* to it; words are substituted in wordlist order, each index once, none
\* skipped: the substituted indices are always exactly those below i, plus i
\* itself while its candidate is being examined.
C17_IndexAdvancesByOne ==
  /\ [](pc = "start" => (i = 0 /\ substituted = {}))
  /\ [](i \in 0..Len(wordlist))
  /\ [](\/ substituted = {w \in WordIdx : w < i}
        \/ /\ pc \in {"root", "derive", "await", "exit"}
           /\ substituted = {w \in WordIdx : w <= i})
  /\ [][i' = i \/ i' = i + 1]_vars
  /\ [][substituted' # substituted =>
          (i \notin substituted /\ substituted' = substituted \cup {i}
           /\ mnemonicWords'[missingIndex + 1] = wordlist[i + 1])]_vars
C17_Witness ==
  /\ Done
  /\ i = Len(wordlist)
  /\ substituted = WordIdx
  /\ QueriedWords # {}
  /\ rootFailed # {}

\* C18: no address is queried twice in a run: every call of
\* getBalanceSatoshis sends one request, an Unknown result is not retried, and
\* a candidate gets at most one request per scheme, three in all.
C18_EachAddressQueriedOnce ==
  /\ \A k, l \in 1..Len(queries) :
       (k # l) =>
         /\ queries[k].address # queries[l].address
         /\ <<queries[k].w, queries[k].ip, queries[k].tp>>
              # <<queries[l].w, queries[l].ip, queries[l].tp>>
  /\ \A w \in WordIdx :
       Cardinality({k \in 1..Len(queries) : queries[k].w = w}) <= Len(SourceAddressTypes)
  /\ \A k \in 1..Len(queries) :
       /\ <<queries[k].w, queries[k].ip, queries[k].tp>> \in deriveCalls \ deriveFailed
       /\ queries[k].address = AddressAt(queries[k].w, queries[k].ip, queries[k].tp)
  /\ Len(queries) = Cardinality(deriveCalls \ deriveFailed)
C18_Witness ==
  /\ Done
  /\ Len(queries) = 2 * Len(SourceAddressTypes)
  /\ ~onlyErrors
  /\ balanceSat = JSNull
  /\ \E w \in WordIdx :
       Cardinality({k \in 1..Len(queries) : queries[k].w = w}) = Len(SourceAddressTypes)

\* position of the hole of a one-hole template
HolePos == CHOOSE k \in 1..Len(template) : template[k] = null

\* C19: an iteration writes the hole slot only: missingIndex stays the
\* position of the template's hole, the known words stay in their slots, and the
\* candidate of index i is the template with the hole filled by wordlist[i],
\* without a hole left and without a word of an earlier iteration elsewhere.
C19_OnlyHoleSlotChanges ==
  /\ [](OneHole /\ pc # "start" =>
          /\ missingIndex + 1 = HolePos
          /\ \A k \in 1..Len(template) : k # HolePos => mnemonicWords[k] = template[k]
          /\ Len(mnemonicWords) = Len(template))
  /\ [](pc \in {"root", "derive", "await"} =>
          /\ mnemonicWords = Candidate(i)
          /\ candidatePhrase = Candidate(i)
          /\ root.mnemonic \in {<< >>, Candidate(i)} \cup {Candidate(w) : w \in 0..(i - 1)}
          /\ \A k \in 1..Len(mnemonicWords) : mnemonicWords[k] # null)
  /\ [](pc \in {"derive", "await"} => root.mnemonic = Candidate(i))
  /\ [][pc # "start" => missingIndex' = missingIndex]_vars
  /\ [][template' = template]_vars
  /\ [][mnemonicWords' # mnemonicWords =>
          /\ pc = "loop"
          /\ mnemonicWords' = [mnemonicWords EXCEPT ![HolePos] = wordlist[i + 1]]
          /\ candidatePhrase' = Candidate(i)]_vars
C19_Witness ==
  /\ OneHole
  /\ HolePos = 1
  /\ pc = "await"
  /\ i = 2
  /\ mnemonicWords = Candidate(2)
  /\ 0 \in QueriedWords

====
